---- MODULE Spec2Model ----
(***************************************************************************)
(* Model of the validation decision engine and the consensus state machine *)
(* of hotlabel-qa: ValidationService.validate_submission, its status       *)
(* decision, and ConsensusRepository's add_validation /                    *)
(* check_and_update_consensus with calculate_consensus.                    *)
(*                                                                         *)
(* Scores (quality, confidence, thresholds) are integers in percent:       *)
(* 0.85 is 85.  An agreement level is the exact fraction <<num, den>> in   *)
(* lowest terms; it is compared with a threshold by cross-multiplication.  *)
(*                                                                         *)
(* Scope of the translation.  Each function body is translated as written. *)
(* Names that a body takes from another module (schema classes, model      *)
(* classes, attribute names of request objects) are resolved to the        *)
(* definition the body evidently means.  A name that is bound nowhere in   *)
(* its own file is an error at run time: consensus_repository.py line 88   *)
(* calls import_module, which that file never imports, so the branch that  *)
(* completes a group raises NameError after its three assignments and      *)
(* before the commit of line 92.                                           *)
(***************************************************************************)
EXTENDS Integers, Sequences, FiniteSets, TLC

VARIABLES
    settings,      \* the Settings singleton (app/core/config.py)
    sessionScope,  \* "shared": one ORM session serves every call; "request": one per call
    validations,   \* table validations, in insertion order; the id is the index;
                   \* field call records how the validate_submission call of
                   \* the record ended (history only, no code reads it)
    groups,        \* table consensus_groups, in insertion order; the id is the index
    pc,            \* per worker: position inside validate_submission
    cur,           \* per worker: locals of validate_submission (validation id, group id)
    probe          \* what the latest step evaluated or returned to its caller

vars == <<settings, sessionScope, validations, groups, pc, cur, probe>>

----------------------------------------------------------------------------
(* Bounds of the model *)

MaxValidations == 3

Workers == {"w1", "w2"}
TaskTypes == {"text_classification"}
Times == {2000}

----------------------------------------------------------------------------
(* Program constants: defaults of Settings and of the column definitions *)

HIGH_CONFIDENCE_THRESHOLD == 85
MEDIUM_CONFIDENCE_THRESHOLD == 60
CONSENSUS_REQUIRED_AGREEMENT == 75
MINIMUM_CONSENSUS_VALIDATORS == 3
QualityBoundary == 70
ThresholdConfidence == 80
GoldenConfidence == 100

DefaultSettings ==
    [HIGH_CONFIDENCE_THRESHOLD |-> HIGH_CONFIDENCE_THRESHOLD,
     MEDIUM_CONFIDENCE_THRESHOLD |-> MEDIUM_CONFIDENCE_THRESHOLD,
     MINIMUM_CONSENSUS_VALIDATORS |-> MINIMUM_CONSENSUS_VALIDATORS,
     CONSENSUS_REQUIRED_AGREEMENT |-> CONSENSUS_REQUIRED_AGREEMENT]

\* Settings reads every field from the environment; these are the
\* deployments the model explores.
SettingsSet ==
    { DefaultSettings,
      [DefaultSettings EXCEPT !.MINIMUM_CONSENSUS_VALIDATORS = 1] }

----------------------------------------------------------------------------
(* Response values.  A response is text or a keyed record with the single  *)
(* key "class"; cty is the Python type of the value under that key.        *)

Txt(s) == [shape |-> "text", text |-> s, cls |-> "", cty |-> ""]
Dct(s, t) == [shape |-> "dict", text |-> "", cls |-> s, cty |-> t]
EmptyDict == [shape |-> "dict", text |-> "", cls |-> "", cty |-> ""]
NoResult == [shape |-> "null", text |-> "", cls |-> "", cty |-> ""]

Responses == { Txt("cat"), Txt("dog"), Dct("7", "str") }

\* The submissions the model draws: every response for the task without a
\* golden example, a matching and a non-matching one for the task with one.
Submissions ==
    { [task_id |-> "t1", response |-> r] : r \in Responses }
      \cup { [task_id |-> "t2", response |-> r] : r \in {Txt("cat"), Txt("dog")} }

\* str.lower()
Lower(s) ==
    CASE s = "Cat " -> "cat "
      [] s = "Cat" -> "cat"
      [] OTHER -> s

\* str.strip().lower()
Normalise(s) ==
    CASE s = "Cat " -> "cat"
      [] s = "cat " -> "cat"
      [] OTHER -> s

\* len(str)
StrLen(s) ==
    CASE s = "" -> 0
      [] s = "7" -> 1
      [] s = "cat" -> 3
      [] s = "dog" -> 3
      [] s = "Cat " -> 4
      [] s = "cat " -> 4
      [] s = "quick brown foxes jumped" -> 24
      [] s = "the quick and the brown" -> 23
      [] s = "the and are for was not" -> 23
      [] OTHER -> 3

\* The conversion back from str(value) that the consensus code applies to
\* the winning value: 'true'/'false' become bool, digits int, one dot float.
ConvertedType(s) ==
    CASE Lower(s) = "true" -> "bool"
      [] Lower(s) = "false" -> "bool"
      [] s = "7" -> "int"
      [] OTHER -> "str"

----------------------------------------------------------------------------
(* Golden sets: task t2 has a golden example, t1 has none. *)

GoldenTasks == {"t2"}

GoldenSets ==
    [t \in GoldenTasks |->
        [expected_response |-> Txt("cat"), allowed_variation |-> 10]]

GoldenGetByTaskId(task_id) ==
    IF task_id \in GoldenTasks THEN {GoldenSets[task_id]} ELSE {}

----------------------------------------------------------------------------
(* ValidationService._determine_status *)

DetermineStatusStrict(cfg, quality_score, confidence) ==
    IF confidence >= cfg.HIGH_CONFIDENCE_THRESHOLD
    THEN IF quality_score > QualityBoundary THEN "validated" ELSE "rejected"
    ELSE "needs_review"

DetermineStatus(cfg, quality_score, confidence) ==
    IF confidence >= cfg.HIGH_CONFIDENCE_THRESHOLD
    THEN IF quality_score >= QualityBoundary THEN "validated" ELSE "rejected"
    ELSE IF confidence >= cfg.MEDIUM_CONFIDENCE_THRESHOLD
         THEN "needs_review"
         ELSE "needs_review"

----------------------------------------------------------------------------
(* ThresholdValidator *)

MinTimes(task_type) ==
    CASE task_type = "vqa" -> 1500
      [] task_type = "text_classification" -> 1000
      [] task_type = "multiple_choice" -> 800
      [] task_type = "open_text" -> 2000
      [] OTHER -> 1000

Min(a, b) == IF a <= b THEN a ELSE b

CheckMinimumTime(time_spent_ms, task_type) ==
    LET min_time == MinTimes(task_type)
    IN  IF time_spent_ms < min_time
        THEN IF time_spent_ms <= 0
             THEN 30
             ELSE Min(90, 50 + (40 * time_spent_ms) \div min_time)
        ELSE 100

CheckResponseFormat(response, task_type) ==
    CASE task_type = "multiple_choice" ->
            IF response.shape # "text" \/ response.text = "" THEN 50 ELSE 100
      [] task_type = "open_text" ->
            IF response.shape # "text" THEN 50
            ELSE IF StrLen(Normalise(response.text)) < 5 THEN 70 ELSE 100
      [] task_type = "vqa" ->
            IF response.shape # "text" \/ response.text = "" THEN 50 ELSE 100
      [] OTHER -> 100

\* _check_repetition returns 1.0 for a text shorter than 5 characters, and
\* the gibberish check needs more than 10: every modelled text is shorter.
CheckResponseContent(response, task_type) == 100

\* A threshold strategy that is sure of itself: confidence 0.9
ThresholdValidateSure(response, time_spent_ms, task_type) ==
    [quality_score |->
        (CheckMinimumTime(time_spent_ms, task_type)
           * CheckResponseFormat(response, task_type)
           * CheckResponseContent(response, task_type)) \div 10000,
     confidence |-> 90]

ThresholdValidate(response, time_spent_ms, task_type) ==
    [quality_score |->
        (CheckMinimumTime(time_spent_ms, task_type)
           * CheckResponseFormat(response, task_type)
           * CheckResponseContent(response, task_type)) \div 10000,
     confidence |-> ThresholdConfidence]

----------------------------------------------------------------------------
(* GoldenSetValidator, for an expected response that is a short text *)

CompareSimpleResponse(user_response, expected_response) ==
    IF user_response.shape = "text"
    THEN IF Lower(user_response.text) = Lower(expected_response.text)
         THEN 100 ELSE 0
    ELSE 0

GoldenSetValidate(task_id, response) ==
    IF GoldenGetByTaskId(task_id) = {}
    THEN [quality_score |-> 0, confidence |-> 0]
    ELSE [quality_score |->
              CompareSimpleResponse(response, GoldenSets[task_id].expected_response),
          confidence |-> GoldenConfidence]

----------------------------------------------------------------------------
(* ValidationService._determine_validation_method, _perform_validation *)

NoMethod == "none"
ValidationTypes == {NoMethod}

DetermineValidationMethod(task_id, validation_type) ==
    IF validation_type # NoMethod THEN validation_type
    ELSE IF GoldenGetByTaskId(task_id) # {} THEN "golden_set"
    ELSE "threshold"

PerformValidation(validation_method, task_id, response, time_spent_ms, task_type) ==
    CASE validation_method = "golden_set" -> GoldenSetValidate(task_id, response)
      [] validation_method = "threshold" ->
            ThresholdValidate(response, time_spent_ms, task_type)

----------------------------------------------------------------------------
(* app/services/consensus.py: calculate_consensus *)

RECURSIVE GCD(_, _)
GCD(a, b) == IF b = 0 THEN a ELSE GCD(b, a % b)

\* The float count / total, kept exact.
Frac(n, d) == IF n = 0 THEN <<0, 1>> ELSE <<n \div GCD(n, d), d \div GCD(n, d)>>
NoLevel == <<0, 0>>

\* level >= threshold, for a threshold in percent
LevelAtLeast(level, threshold) == level[1] * 100 >= threshold * level[2]

\* Counter(values).most_common(1)[0]: the value with the highest count,
\* the one met first among equals.  values is a non-empty sequence.
MostCommon(values) ==
    LET CountOf(x) == Cardinality({i \in DOMAIN values : values[i] = x})
        First(x) == CHOOSE i \in DOMAIN values :
                        /\ values[i] = x
                        /\ \A j \in DOMAIN values : values[j] = x => i <= j
        best == CHOOSE i \in DOMAIN values :
                    /\ i = First(values[i])
                    /\ \A j \in DOMAIN values :
                          \/ CountOf(values[i]) > CountOf(values[j])
                          \/ /\ CountOf(values[i]) = CountOf(values[j])
                             /\ i <= First(values[j])
    IN  [value |-> values[best], count |-> CountOf(values[best])]

CalculateTextConsensus(responses) ==
    LET strs == SelectSeq(responses, LAMBDA r : r.shape = "text")
        normalized_responses == [i \in DOMAIN strs |-> Normalise(strs[i].text)]
    IN  IF Len(strs) = 0
        THEN [raised |-> FALSE, result |-> Txt(""), level |-> Frac(0, 1)]
        ELSE LET most_common == MostCommon(normalized_responses)
             IN  [raised |-> FALSE,
                  result |-> Txt(most_common.value),
                  level |-> Frac(most_common.count, Len(normalized_responses))]

\* response.keys() on a member that is not a dict raises AttributeError.
CalculateDictConsensus(responses) ==
    IF \E i \in DOMAIN responses : responses[i].shape # "dict"
    THEN [raised |-> TRUE, result |-> NoResult, level |-> NoLevel]
    ELSE LET with_key == SelectSeq(responses, LAMBDA r : r.cls # "")
             key_values == [i \in DOMAIN with_key |-> with_key[i].cls]
         IN  IF Len(with_key) = 0
             THEN [raised |-> FALSE, result |-> EmptyDict, level |-> Frac(0, 1)]
             ELSE LET most_common == MostCommon(key_values)
                      key_agreement == Frac(most_common.count, Len(responses))
                  IN  [raised |-> FALSE,
                       result |->
                          IF 2 * most_common.count > Len(responses)
                          THEN Dct(most_common.value,
                                   ConvertedType(most_common.value))
                          ELSE EmptyDict,
                       level |-> key_agreement]

CalculateConsensus(responses) ==
    IF Len(responses) = 0
    THEN [raised |-> FALSE, result |-> EmptyDict, level |-> Frac(0, 1)]
    ELSE IF responses[1].shape = "text" THEN CalculateTextConsensus(responses)
    ELSE CalculateDictConsensus(responses)

----------------------------------------------------------------------------
(* ConsensusRepository *)

NoGroup == 0

IndexSeq(n) == [i \in 1..n |-> i]

\* A query without the filter on consensus_group_id
GetValidationsAll(consensus_id) == IndexSeq(Len(validations))

\* get_validations: the validations whose consensus_group_id is the group
GetValidations(consensus_id) ==
    SelectSeq(IndexSeq(Len(validations)),
              LAMBDA i : validations[i].consensus_group_id = consensus_id)

\* get_by_task_id: .first() of the groups of the task, or NoGroup
GetByTaskId(task_id) ==
    IF \E g \in DOMAIN groups : groups[g].task_id = task_id
    THEN CHOOSE g \in DOMAIN groups :
            /\ groups[g].task_id = task_id
            /\ \A h \in DOMAIN groups : groups[h].task_id = task_id => g <= h
    ELSE NoGroup

\* create: the column defaults give status pending and null results
NewGroup(task_id, required_validations, agreement_threshold) ==
    [task_id |-> task_id,
     status |-> "pending",
     required_validations |-> required_validations,
     agreement_threshold |-> agreement_threshold,
     consensus_result |-> NoResult,
     agreement_level |-> NoLevel]

\* check_and_update_consensus: the group as the call leaves it, and whether
\* the call raised.  The completing branch assigns status, consensus_result
\* and agreement_level and then raises NameError (line 88) before the
\* commit: a shared session keeps the assignments on the mapped object and
\* the next commit writes them, a per-request session is discarded with them.
CheckAndUpdateConsensus(consensus_id) ==
    LET db_consensus == groups[consensus_id]
        members == GetValidations(consensus_id)
        validation_count == Len(members)
        cc == CalculateConsensus([i \in DOMAIN members |->
                                     validations[members[i]].response])
    IN  IF validation_count >= db_consensus.required_validations
        THEN IF cc.raised
             THEN [raised |-> TRUE, group |-> db_consensus]
             ELSE IF LevelAtLeast(cc.level, db_consensus.agreement_threshold)
             THEN [raised |-> TRUE,
                   group |-> IF sessionScope = "shared"
                             THEN [db_consensus EXCEPT
                                      !.status = "completed",
                                      !.consensus_result = cc.result,
                                      !.agreement_level = cc.level]
                             ELSE db_consensus]
             ELSE IF validation_count >= db_consensus.required_validations * 2
             THEN [raised |-> FALSE,
                   group |-> [db_consensus EXCEPT !.status = "failed"]]
             ELSE [raised |-> FALSE, group |-> db_consensus]
        ELSE [raised |-> FALSE, group |-> db_consensus]

----------------------------------------------------------------------------
(* State machine *)

NoLocals == [vid |-> 0, gid |-> NoGroup]
NoProbe == [kind |-> "none"]

Init ==
    /\ settings \in SettingsSet
    /\ sessionScope \in {"shared", "request"}
    /\ validations = <<>>
    /\ groups = <<>>
    /\ pc = [w \in Workers |-> "idle"]
    /\ cur = [w \in Workers |-> NoLocals]
    /\ probe = NoProbe

\* Handlers sharing one session run on one event loop and never suspend
\* between their statements; handlers with a session each interleave.
MayRun(w) ==
    sessionScope = "shared" => \A o \in Workers \ {w} : pc[o] = "idle"

\* A new call is served by the first idle worker.
Dispatch(w) ==
    /\ pc[w] = "idle"
    /\ w = "w2" => pc["w1"] # "idle"

AllIdle == \A w \in Workers : pc[w] = "idle"

\* validate_submission, lines 39-62: choose the method, insert the record
Submit(w, task_id, response, time_spent_ms, task_type, validation_type) ==
    /\ Dispatch(w)
    /\ MayRun(w)
    /\ Len(validations) < MaxValidations
    /\ validations' = Append(validations,
          [task_id |-> task_id,
           response |-> response,
           time_spent_ms |-> time_spent_ms,
           task_type |-> task_type,
           validation_method |-> DetermineValidationMethod(task_id, validation_type),
           status |-> "pending",
           quality_score |-> 0,
           confidence |-> 0,
           consensus_group_id |-> NoGroup,
           call |-> "running"])
    /\ pc' = [pc EXCEPT ![w] = "created"]
    /\ cur' = [cur EXCEPT ![w] = [vid |-> Len(validations) + 1, gid |-> NoGroup]]
    /\ probe' = NoProbe
    /\ UNCHANGED <<settings, sessionScope, groups>>

\* A routing that hands nothing to the consensus engine
NeedsConsensusNever(status) == FALSE

\* validate_submission, lines 87-89: only needs_review goes to consensus
NeedsConsensus(status) == status = "needs_review"

\* validate_submission, lines 64-92: score, update, route
Score(w) ==
    /\ pc[w] = "created"
    /\ MayRun(w)
    /\ LET v == validations[cur[w].vid]
           r == PerformValidation(v.validation_method, v.task_id, v.response,
                                  v.time_spent_ms, v.task_type)
           st == DetermineStatus(settings, r.quality_score, r.confidence)
       IN  /\ validations' = [validations EXCEPT ![cur[w].vid] =
                 [v EXCEPT !.quality_score = r.quality_score,
                           !.confidence = r.confidence,
                           !.status = st,
                           !.call = IF NeedsConsensus(st)
                                    THEN "running" ELSE "returned"]]
           /\ IF NeedsConsensus(st)
              THEN /\ pc' = [pc EXCEPT ![w] = "lookup"]
                   /\ cur' = cur
              ELSE /\ pc' = [pc EXCEPT ![w] = "idle"]
                   /\ cur' = [cur EXCEPT ![w] = NoLocals]
    /\ probe' = NoProbe
    /\ UNCHANGED <<settings, sessionScope, groups>>

\* _handle_consensus_validation, lines 186-188
Lookup(w) ==
    /\ pc[w] = "lookup"
    /\ MayRun(w)
    /\ LET consensus_group == GetByTaskId(validations[cur[w].vid].task_id)
       IN  IF consensus_group = NoGroup
           THEN /\ pc' = [pc EXCEPT ![w] = "create"]
                /\ cur' = cur
           ELSE /\ pc' = [pc EXCEPT ![w] = "add"]
                /\ cur' = [cur EXCEPT ![w].gid = consensus_group]
    /\ probe' = NoProbe
    /\ UNCHANGED <<settings, sessionScope, validations, groups>>

\* _handle_consensus_validation, lines 189-197
CreateGroup(w) ==
    /\ pc[w] = "create"
    /\ MayRun(w)
    /\ groups' = Append(groups,
          NewGroup(validations[cur[w].vid].task_id,
                   settings.MINIMUM_CONSENSUS_VALIDATORS,
                   settings.CONSENSUS_REQUIRED_AGREEMENT))
    /\ cur' = [cur EXCEPT ![w].gid = Len(groups) + 1]
    /\ pc' = [pc EXCEPT ![w] = "add"]
    /\ probe' = NoProbe
    /\ UNCHANGED <<settings, sessionScope, validations>>

\* _handle_consensus_validation line 200, ConsensusRepository.add_validation
AddValidation(w) ==
    /\ pc[w] = "add"
    /\ MayRun(w)
    /\ validations' = [validations EXCEPT
          ![cur[w].vid].consensus_group_id = cur[w].gid]
    /\ groups' = [groups EXCEPT ![cur[w].gid].status =
          IF @ = "pending" THEN "in_progress" ELSE @]
    /\ pc' = [pc EXCEPT ![w] = "check"]
    /\ probe' = NoProbe
    /\ UNCHANGED <<settings, sessionScope, cur>>

\* _handle_consensus_validation line 203, and the return of line 92
Check(w) ==
    /\ pc[w] = "check"
    /\ MayRun(w)
    /\ LET res == CheckAndUpdateConsensus(cur[w].gid)
       IN  /\ groups' = [groups EXCEPT ![cur[w].gid] = res.group]
           /\ validations' = [validations EXCEPT ![cur[w].vid].call =
                 IF res.raised THEN "raised" ELSE "checked"]
    /\ pc' = [pc EXCEPT ![w] = "idle"]
    /\ cur' = [cur EXCEPT ![w] = NoLocals]
    /\ probe' = NoProbe
    /\ UNCHANGED <<settings, sessionScope>>

\* admin route check_consensus_group: the response carries the group as it
\* was read before the check (kept in probe); the background task then
\* re-checks the group.
AdminCheck(consensus_id) ==
    /\ consensus_id \in DOMAIN groups
    /\ sessionScope = "shared" => AllIdle
    /\ probe' = [kind |-> "check", consensus_id |-> consensus_id,
                 status |-> groups[consensus_id].status]
    /\ groups' = [groups EXCEPT ![consensus_id] =
          CheckAndUpdateConsensus(consensus_id).group]
    /\ UNCHANGED <<settings, sessionScope, validations, pc, cur>>

Next ==
    \/ \E w \in Workers, s \in Submissions, ms \in Times,
          ty \in TaskTypes, vt \in ValidationTypes :
          Submit(w, s.task_id, s.response, ms, ty, vt)
    \/ \E w \in Workers : Score(w)
    \/ \E w \in Workers : Lookup(w)
    \/ \E w \in Workers : CreateGroup(w)
    \/ \E w \in Workers : AddValidation(w)
    \/ \E w \in Workers : Check(w)
    \/ \E g \in DOMAIN groups : AdminCheck(g)

Spec == Init /\ [][Next]_vars

----------------------------------------------------------------------------
(* _determine_status as a pure function: one evaluation per behaviour,     *)
(* over scores around every boundary and three threshold configurations    *)
(* with HIGH > MEDIUM.                                                     *)

StatusScores == {0, 30, 59, 60, 69, 70, 71, 84, 85, 86, 100}

StatusSettings ==
    { DefaultSettings,
      [DefaultSettings EXCEPT !.HIGH_CONFIDENCE_THRESHOLD = 70,
                              !.MEDIUM_CONFIDENCE_THRESHOLD = 30],
      [DefaultSettings EXCEPT !.HIGH_CONFIDENCE_THRESHOLD = 100,
                              !.MEDIUM_CONFIDENCE_THRESHOLD = 0] }

InitStatus ==
    /\ settings \in StatusSettings
    /\ sessionScope = "request"
    /\ validations = <<>>
    /\ groups = <<>>
    /\ pc = [w \in Workers |-> "idle"]
    /\ cur = [w \in Workers |-> NoLocals]
    /\ probe \in [kind : {"status"}, quality_score : StatusScores,
                  confidence : StatusScores, status : {"unset"}]

EvalDetermineStatus ==
    /\ probe.kind = "status"
    /\ probe.status = "unset"
    /\ probe' = [probe EXCEPT !.status =
          DetermineStatus(settings, probe.quality_score, probe.confidence)]
    /\ UNCHANGED <<settings, sessionScope, validations, groups, pc, cur>>

NextStatus == EvalDetermineStatus

SpecStatus == InitStatus /\ [][NextStatus]_vars

----------------------------------------------------------------------------
(* Claims *)

\* C1: the status is decided from (quality, confidence) by the table:
\* confidence >= HIGH and quality >= 0.7 gives validated, confidence >= HIGH
\* and quality < 0.7 gives rejected, confidence < HIGH gives needs_review;
\* pending is never produced.
C1_StatusTable ==
    (probe.kind = "status" /\ probe.status # "unset") =>
        LET q == probe.quality_score
            c == probe.confidence
            high == settings.HIGH_CONFIDENCE_THRESHOLD
        IN  /\ (c >= high /\ q >= 70) => probe.status = "validated"
            /\ (c >= high /\ q < 70) => probe.status = "rejected"
            /\ c < high => probe.status = "needs_review"
            /\ probe.status # "pending"

\* C1 witness: quality exactly 0.70 with confidence >= HIGH was decided,
\* and the decision was validated.
C1_Witness ==
    /\ probe.kind = "status"
    /\ probe.quality_score = 70
    /\ probe.confidence >= settings.HIGH_CONFIDENCE_THRESHOLD
    /\ probe.status = "validated"

\* Vocabulary of the consensus claims
Terminal(status) == status \in {"completed", "failed"}
Open(status) == status \in {"pending", "in_progress"}
MembersOf(g) == {i \in DOMAIN validations : validations[i].consensus_group_id = g}
MemberCount(g) == Cardinality(MembersOf(g))

\* Every addition to the group has been followed by its consensus check.
Settled(g) == \A w \in Workers : ~(pc[w] = "check" /\ cur[w].gid = g)

\* The number of pairs of members with exactly equal responses, as a
\* fraction of the number of pairs; 0.0 with fewer than two members.
PairwiseAgreement(g) ==
    LET pairs == {p \in MembersOf(g) \X MembersOf(g) : p[1] < p[2]}
        matching == {p \in pairs :
                        validations[p[1]].response = validations[p[2]].response}
    IN  IF Cardinality(pairs) = 0 THEN Frac(0, 1)
        ELSE Frac(Cardinality(matching), Cardinality(pairs))

\* C2: a group that has reached completed or failed never changes status.
C2_TerminalStatusSticky ==
    [][\A g \in DOMAIN groups :
          Terminal(groups[g].status) => groups'[g].status = groups[g].status]_vars

\* C3: once a group is completed or failed it receives no further member
\* and no further write to its fields.
C3_TerminalGroupClosed ==
    [][\A g \in DOMAIN groups :
          Terminal(groups[g].status) =>
              /\ groups'[g] = groups[g]
              /\ \A i \in DOMAIN validations' :
                    validations'[i].consensus_group_id = g => i \in MembersOf(g)]_vars

\* C4: after every addition and its check, the group is completed exactly
\* when the pairwise agreement reaches its threshold, otherwise failed when
\* it has 2 * required_validations members or more, otherwise in_progress.
C4_StatusFollowsPairwiseAgreement ==
    \A g \in DOMAIN groups :
        (Settled(g) /\ MemberCount(g) >= 1) =>
            groups[g].status =
                IF LevelAtLeast(PairwiseAgreement(g), groups[g].agreement_threshold)
                THEN "completed"
                ELSE IF MemberCount(g) >= 2 * groups[g].required_validations
                THEN "failed"
                ELSE "in_progress"

\* C5: after every addition and its check a group with 2 * R members or
\* more is terminal, and a group that is not terminal never holds more
\* than 2 * R members.
C5_ConsensusTermination ==
    \A g \in DOMAIN groups :
        /\ (Settled(g) /\ MemberCount(g) >= 2 * groups[g].required_validations)
              => Terminal(groups[g].status)
        /\ ~Terminal(groups[g].status)
              => MemberCount(g) <= 2 * groups[g].required_validations

\* C6: a group with fewer than 2 members is never terminal.
C6_FewerThanTwoNeverTerminal ==
    \A g \in DOMAIN groups :
        MemberCount(g) < 2 => Open(groups[g].status)

\* C7: a group carries a consensus result and an agreement level if and
\* only if its status is completed.
C7_ResultIffCompleted ==
    \A g \in DOMAIN groups :
        /\ groups[g].consensus_result # NoResult <=> groups[g].status = "completed"
        /\ groups[g].agreement_level # NoLevel <=> groups[g].status = "completed"

\* C8: a consensus check on a completed group whose members are unchanged,
\* every addition having been followed by its check, leaves the status, the
\* consensus result and the agreement level as they were, at every repeat.
C8_RecheckIdempotent ==
    [][\A g \in DOMAIN groups :
          (/\ groups[g].status = "completed"
           /\ Settled(g)
           /\ \A i \in DOMAIN validations' :
                 (validations'[i].consensus_group_id = g) <=> (i \in MembersOf(g)))
          => groups'[g] = groups[g]]_vars

\* The admin route has just re-checked a group that was completed, and the
\* group is completed with the result and the level it had.
C8_Witness ==
    /\ probe.kind = "check"
    /\ probe.status = "completed"
    /\ groups[probe.consensus_id].status = "completed"
    /\ groups[probe.consensus_id].consensus_result = Txt("cat")
    /\ groups[probe.consensus_id].agreement_level = Frac(1, 1)

C10_OneOpenGroupPerTask ==
    /\ \A g, h \in DOMAIN groups :
          (/\ groups[g].task_id = groups[h].task_id
           /\ Open(groups[g].status)
           /\ Open(groups[h].status)) => g = h
    /\ \A i, j \in DOMAIN validations :
          (/\ validations[i].task_id = validations[j].task_id
           /\ validations[i].consensus_group_id # NoGroup
           /\ validations[j].consensus_group_id # NoGroup)
          => validations[i].consensus_group_id = validations[j].consensus_group_id

\* A worker is inside the add-recompute-transition sequence for a task from
\* the moment it is about to add its validation until its check has ended.
InSection(w, task_id) ==
    /\ pc[w] \in {"add", "check"}
    /\ validations[cur[w].vid].task_id = task_id

\* C11: the add-recompute-transition sequence is a critical section per
\* task: two calls are never inside it for the same task at once, and when
\* no call is in flight the attached validations of a task form one group,
\* as every serial order of the calls produces.
C11_CriticalSectionPerTask ==
    /\ \A w, o \in Workers :
          (\E v \in DOMAIN validations :
              /\ InSection(w, validations[v].task_id)
              /\ InSection(o, validations[v].task_id)) => w = o
    /\ AllIdle =>
          \A i, j \in DOMAIN validations :
              (/\ validations[i].task_id = validations[j].task_id
               /\ validations[i].consensus_group_id # NoGroup
               /\ validations[j].consensus_group_id # NoGroup)
              => validations[i].consensus_group_id = validations[j].consensus_group_id

----------------------------------------------------------------------------
(* The operations that write the status of one stored validation: the      *)
(* scoring update of validate_submission, the repository's                 *)
(* update_quality_score and the status endpoint.  probe is the record.     *)

RecordScores == {0, 59, 60, 69, 70, 84, 85, 100}
ValidationStatuses == {"pending", "validated", "rejected", "needs_review"}

\* ValidationRepository.create: the column defaults
InitRecord ==
    /\ settings \in SettingsSet
    /\ sessionScope = "request"
    /\ validations = <<>>
    /\ groups = <<>>
    /\ pc = [w \in Workers |-> "idle"]
    /\ cur = [w \in Workers |-> NoLocals]
    /\ probe = [kind |-> "record", quality_score |-> 0, confidence |-> 0,
                status |-> "pending", set_by |-> "create"]

\* validate_submission, lines 75-85
ScoreRecord(quality_score, confidence) ==
    /\ probe.kind = "record"
    /\ probe.status = "pending"
    /\ probe' = [probe EXCEPT
          !.quality_score = quality_score,
          !.confidence = confidence,
          !.status = DetermineStatus(settings, quality_score, confidence),
          !.set_by = "validate_submission"]
    /\ UNCHANGED <<settings, sessionScope, validations, groups, pc, cur>>

\* ValidationRepository.update_quality_score
UpdateQualityScore(quality_score, confidence) ==
    /\ probe.kind = "record"
    /\ probe' = [probe EXCEPT
          !.quality_score = quality_score,
          !.confidence = confidence,
          !.status = IF confidence >= settings.HIGH_CONFIDENCE_THRESHOLD
                     THEN "validated"
                     ELSE IF confidence >= settings.MEDIUM_CONFIDENCE_THRESHOLD
                     THEN "needs_review"
                     ELSE "rejected",
          !.set_by = "update_quality_score"]
    /\ UNCHANGED <<settings, sessionScope, validations, groups, pc, cur>>

\* ValidationService.update_validation_status
UpdateValidationStatus(status) ==
    /\ probe.kind = "record"
    /\ probe' = [probe EXCEPT !.status = status,
                              !.set_by = "update_validation_status"]
    /\ UNCHANGED <<settings, sessionScope, validations, groups, pc, cur>>

NextRecord ==
    \/ \E q, c \in RecordScores : ScoreRecord(q, c)
    \/ \E q, c \in RecordScores : UpdateQualityScore(q, c)
    \/ \E st \in ValidationStatuses : UpdateValidationStatus(st)

SpecRecord == InitRecord /\ [][NextRecord]_vars

\* C12: a stored status that has been set equals the status table applied
\* to the stored quality and confidence, whichever operation set it.
C12_StatusOnlyByTable ==
    (probe.kind = "record" /\ probe.set_by # "create") =>
        probe.status = DetermineStatus(settings, probe.quality_score,
                                       probe.confidence)

----------------------------------------------------------------------------
(* _determine_validation_method and _perform_validation over the outputs   *)
(* of the four strategies.  A strategy output is the tuple (quality,       *)
(* confidence, issues, feedback); scores are percents and multiples of 10, *)
(* so the weighted sums below are exact.  The feedback "" stands for None. *)

ValidationMethods ==
    {"golden_set", "consensus", "statistical", "bot_detection", "threshold", "manual"}

NoOutput == [quality_score |-> 0, confidence |-> 0, issues |-> <<>>, feedback |-> ""]

StrategyOutputs(name) ==
    { NoOutput,
      [quality_score |-> 100, confidence |-> 100, issues |-> <<>>, feedback |-> name],
      [quality_score |-> 100, confidence |-> 0, issues |-> <<name>>, feedback |-> ""],
      [quality_score |-> 50, confidence |-> 100, issues |-> <<name>>, feedback |-> name] }

\* a or b
Or(a, b) == IF a # "" THEN a ELSE b

\* Weights of 0.6, 0.2, 0.2, 0.1
FuseFourHeavy(golden_result, threshold_result, bot_result, statistical_result) ==
    [quality_score |->
        (6 * golden_result.quality_score + 2 * threshold_result.quality_score
           + 2 * bot_result.quality_score + statistical_result.quality_score) \div 10,
     confidence |->
        (6 * golden_result.confidence + 2 * threshold_result.confidence
           + 2 * bot_result.confidence + statistical_result.confidence) \div 10,
     issues |-> golden_result.issues \o threshold_result.issues
                  \o bot_result.issues \o statistical_result.issues,
     feedback |-> Or(golden_result.feedback, Or(bot_result.feedback,
                     Or(threshold_result.feedback, statistical_result.feedback)))]

\* _perform_validation, lines 150-156
FuseFour(golden_result, threshold_result, bot_result, statistical_result) ==
    [quality_score |->
        (5 * golden_result.quality_score + 2 * threshold_result.quality_score
           + 2 * bot_result.quality_score + statistical_result.quality_score) \div 10,
     confidence |->
        (5 * golden_result.confidence + 2 * threshold_result.confidence
           + 2 * bot_result.confidence + statistical_result.confidence) \div 10,
     issues |-> golden_result.issues \o threshold_result.issues
                  \o bot_result.issues \o statistical_result.issues,
     feedback |-> Or(golden_result.feedback, Or(bot_result.feedback,
                     Or(threshold_result.feedback, statistical_result.feedback)))]

\* _perform_validation, lines 157-162
FuseThree(threshold_result, bot_result, statistical_result) ==
    [quality_score |->
        (4 * threshold_result.quality_score + 3 * bot_result.quality_score
           + 3 * statistical_result.quality_score) \div 10,
     confidence |->
        (4 * threshold_result.confidence + 3 * bot_result.confidence
           + 3 * statistical_result.confidence) \div 10,
     issues |-> threshold_result.issues \o bot_result.issues
                  \o statistical_result.issues,
     feedback |-> Or(bot_result.feedback,
                     Or(threshold_result.feedback, statistical_result.feedback))]

\* _perform_validation, with the validators' outputs as arguments
PerformValidationOn(validation_method, task_id, golden_result, threshold_result, bot_result, statistical_result) ==
    CASE validation_method = "golden_set" -> golden_result
      [] validation_method = "bot_detection" -> bot_result
      [] validation_method = "statistical" -> statistical_result
      [] validation_method = "threshold" -> threshold_result
      [] OTHER ->
            IF GoldenGetByTaskId(task_id) # {}
            THEN FuseFour(golden_result, threshold_result, bot_result,
                          statistical_result)
            ELSE FuseThree(threshold_result, bot_result, statistical_result)

InitFusion ==
    /\ settings = DefaultSettings
    /\ sessionScope = "request"
    /\ validations = <<>>
    /\ groups = <<>>
    /\ pc = [w \in Workers |-> "idle"]
    /\ cur = [w \in Workers |-> NoLocals]
    /\ probe \in [kind : {"fusion"},
                  task_id : {"t1", "t2"},
                  validation_type : ValidationMethods \cup {NoMethod},
                  golden : StrategyOutputs("golden"),
                  threshold : StrategyOutputs("threshold"),
                  bot : StrategyOutputs("bot"),
                  statistical : StrategyOutputs("statistical"),
                  done : {FALSE},
                  out : {NoOutput}]

EvalPerformValidation ==
    /\ probe.kind = "fusion"
    /\ ~probe.done
    /\ probe' = [probe EXCEPT
          !.done = TRUE,
          !.out = PerformValidationOn(
                     DetermineValidationMethod(probe.task_id, probe.validation_type),
                     probe.task_id, probe.golden, probe.threshold, probe.bot,
                     probe.statistical)]
    /\ UNCHANGED <<settings, sessionScope, validations, groups, pc, cur>>

NextFusion == EvalPerformValidation

SpecFusion == InitFusion /\ [][NextFusion]_vars

\* C13: with no method specified the four strategies are fused with
\* weights 0.5, 0.2, 0.2, 0.1 when the task has a golden example, and
\* threshold, bot and statistical with 0.4, 0.3, 0.3 when it has none.
C13_UnspecifiedMethodFuses ==
    (probe.kind = "fusion" /\ probe.done /\ probe.validation_type = NoMethod) =>
        probe.out = IF GoldenGetByTaskId(probe.task_id) # {}
                    THEN FuseFour(probe.golden, probe.threshold, probe.bot,
                                  probe.statistical)
                    ELSE FuseThree(probe.threshold, probe.bot, probe.statistical)

\* C14: with a method specified, the output is exactly the output of the
\* strategy of that name, and nothing when no strategy has that name; no
\* other strategy contributes.
C14_ExplicitMethodRunsAlone ==
    (probe.kind = "fusion" /\ probe.done /\ probe.validation_type # NoMethod) =>
        probe.out = CASE probe.validation_type = "golden_set" -> probe.golden
                      [] probe.validation_type = "bot_detection" -> probe.bot
                      [] probe.validation_type = "statistical" -> probe.statistical
                      [] probe.validation_type = "threshold" -> probe.threshold
                      [] OTHER -> NoOutput

C16_SubmissionNeverFails ==
    \A i \in DOMAIN validations : validations[i].call # "raised"

\* C17: no stored validation is in the un-scored state left by the initial
\* create, and no record remains of a call that did not complete.
C17_CompletionOrNothing ==
    \A i \in DOMAIN validations :
        /\ ~(/\ validations[i].status = "pending"
             /\ validations[i].quality_score = 0
             /\ validations[i].confidence = 0)
        /\ validations[i].call \in {"returned", "checked"}

----------------------------------------------------------------------------
(* Settings() as loaded from the environment: the two thresholds are plain *)
(* float fields, so every pair of values is accepted.                      *)

ThresholdValues == {-10, 0, 60, 85, 100, 150}

InitConfig ==
    /\ settings \in {[DefaultSettings EXCEPT !.HIGH_CONFIDENCE_THRESHOLD = h,
                                             !.MEDIUM_CONFIDENCE_THRESHOLD = md] :
                        h \in ThresholdValues, md \in ThresholdValues}
    /\ sessionScope = "request"
    /\ validations = <<>>
    /\ groups = <<>>
    /\ pc = [w \in Workers |-> "idle"]
    /\ cur = [w \in Workers |-> NoLocals]
    /\ probe \in [kind : {"status"}, quality_score : {0, 69, 70, 100},
                  confidence : {0, 60, 85, 100}, status : {"unset"}]

SpecConfig == InitConfig /\ [][NextStatus]_vars

\* C18: thresholds that are mis-ordered (HIGH <= MEDIUM) or outside [0,1]
\* are rejected when supplied, so no status is ever decided under them.
C18_InvalidConfigurationRejected ==
    LET high == settings.HIGH_CONFIDENCE_THRESHOLD
        medium == settings.MEDIUM_CONFIDENCE_THRESHOLD
    IN  (probe.kind = "status" /\ probe.status # "unset") =>
            (high > medium /\ high \in 0..100 /\ medium \in 0..100)

----------------------------------------------------------------------------
(* GoldenSetValidator._compare_responses over JSON values.  A value is a   *)
(* record [t, n, s, items, keys]: a number (n), a boolean (n is 1 or 0, as *)
(* bool is a subclass of int), a text (s), a list (items) or a dict (keys  *)
(* in insertion order, items the values under them).  A score is an exact  *)
(* fraction <<numerator, denominator>>; allowed_variation is a percent.    *)

Num(n) == [t |-> "num", n |-> n, s |-> "", items |-> <<>>, keys |-> <<>>]
Bool(b) == [t |-> "bool", n |-> IF b THEN 1 ELSE 0, s |-> "", items |-> <<>>, keys |-> <<>>]
Str(s) == [t |-> "str", n |-> 0, s |-> s, items |-> <<>>, keys |-> <<>>]
List(items) == [t |-> "list", n |-> 0, s |-> "", items |-> items, keys |-> <<>>]
Dict(keys, items) == [t |-> "dict", n |-> 0, s |-> "", items |-> items, keys |-> keys]

\* isinstance(x, (str, int, float, bool))
IsSimple(x) == x.t \in {"str", "num", "bool"}
\* isinstance(x, (int, float)), true of a bool as well
IsNumber(x) == x.t \in {"num", "bool"}

Abs(n) == IF n < 0 THEN -n ELSE n

One == <<1, 1>>
Zero == <<0, 1>>
RAdd(a, b) == Frac(a[1] * b[2] + b[1] * a[2], a[2] * b[2])
RLess(a, b) == a[1] * b[2] < b[1] * a[2]

Scored(score, issues) == [raised |-> FALSE, score |-> score, issues |-> issues]
Raised == [raised |-> TRUE, score |-> Zero, issues |-> <<>>]

\* the words of the lowered text longer than 3 characters that are not
\* stop words
ExpectedKeywords(text) ==
    CASE text = "quick brown foxes jumped" -> {"quick", "brown", "foxes", "jumped"}
      [] text = "the quick and the brown" -> {"quick", "brown"}
      [] OTHER -> {}

\* kw in text
Contains(text, kw) ==
    \/ text = "quick brown foxes jumped" /\ kw \in {"quick", "brown", "foxes", "jumped"}
    \/ text = "the quick and the brown" /\ kw \in {"quick", "brown"}

\* _fuzzy_text_compare
FuzzyTextCompare(user_text, expected_text) ==
    LET expected_keywords == ExpectedKeywords(Lower(expected_text))
        keywords_found == Cardinality({kw \in expected_keywords :
                                          Contains(Lower(user_text), kw)})
    IN  IF expected_keywords = {}
        THEN Scored(One, <<>>)
        ELSE IF keywords_found < Cardinality(expected_keywords)
        THEN Scored(Frac(keywords_found, Cardinality(expected_keywords)),
                    <<"partial_match">>)
        ELSE Scored(One, <<>>)

\* _compare_simple_response.  A boolean expected value is caught by the
\* numeric branch; a numeric expected value of 0 that is not matched falls
\* through to the final fallback.
SimpleResponseCompare(user_response, expected_response, allowed_variation) ==
    IF expected_response.t = "str"
    THEN IF user_response.t = "str"
         THEN IF StrLen(expected_response.s) > 20
              THEN FuzzyTextCompare(user_response.s, expected_response.s)
              ELSE IF Lower(user_response.s) = Lower(expected_response.s)
              THEN Scored(One, <<>>)
              ELSE Scored(Zero, <<"mismatch">>)
         ELSE Scored(Zero, <<"type_error">>)
    ELSE IF IsNumber(user_response)
    THEN IF expected_response.n = 0
         THEN IF 100 * Abs(user_response.n) <= allowed_variation
              THEN Scored(One, <<>>)
              ELSE Scored(Zero, <<"error">>)
         ELSE LET diff == Abs(user_response.n - expected_response.n)
                  size == Abs(expected_response.n)
              IN  IF 100 * diff <= allowed_variation * size
                  THEN Scored(One, <<>>)
                  ELSE IF allowed_variation * 3 = 0
                  THEN Raised
                  ELSE IF 100 * diff >= 3 * allowed_variation * size
                  THEN Scored(Zero, <<"variation">>)
                  ELSE Scored(Frac(3 * allowed_variation * size - 100 * diff,
                                   3 * allowed_variation * size),
                              <<"variation">>)
    ELSE Scored(Zero, <<"type_error">>)

\* Python equality and hashing of simple values: True == 1 and False == 0
PyKey(x) == IF x.t = "str" THEN <<"str", 0, x.s>> ELSE <<"num", x.n, "">>

RECURSIVE PyEq(_, _)
PyEq(a, b) ==
    IF IsSimple(a) /\ IsSimple(b) THEN PyKey(a) = PyKey(b)
    ELSE /\ a.t = b.t
         /\ Len(a.items) = Len(b.items)
         /\ IF a.t = "list"
            THEN \A i \in DOMAIN a.items : PyEq(a.items[i], b.items[i])
            ELSE /\ {a.keys[i] : i \in DOMAIN a.keys} = {b.keys[i] : i \in DOMAIN b.keys}
                 /\ \A i \in DOMAIN a.keys : \A j \in DOMAIN b.keys :
                       a.keys[i] = b.keys[j] => PyEq(a.items[i], b.items[j])

\* _compare_simple_lists: an F1 score over the two sets; a user list with
\* an unhashable item makes set() raise, and the except branch counts the
\* expected items found in the user list.
SimpleListsCompare(user_list, expected_list) ==
    IF \A i \in DOMAIN user_list : IsSimple(user_list[i])
    THEN LET expected_set == {PyKey(expected_list[i]) : i \in DOMAIN expected_list}
             user_set == {PyKey(user_list[i]) : i \in DOMAIN user_list}
             common == Cardinality(expected_set \cap user_set)
             \* expected_coverage = c / e, precision = c / u (1.0 when empty)
             e == Cardinality(expected_set)
             u == Cardinality(user_set)
             quality_score ==
                 IF u = 0 THEN Zero
                 ELSE IF common = 0 THEN Zero
                 ELSE Frac(2 * common, e + u)
             missing == IF expected_set \ user_set # {} THEN <<"missing_items">> ELSE <<>>
             extra == IF user_set \ expected_set # {} THEN <<"extra_items">> ELSE <<>>
         IN  Scored(quality_score,
                    IF RLess(quality_score, One) THEN missing \o extra ELSE <<>>)
    ELSE LET matches == Cardinality({i \in DOMAIN expected_list :
                            \E j \in DOMAIN user_list :
                                PyEq(expected_list[i], user_list[j])})
             quality_score == Frac(matches, Len(expected_list))
         IN  Scored(quality_score,
                    IF RLess(quality_score, One) THEN <<"partial_match">> ELSE <<>>)

\* position of key in keys, 0 when absent
KeyIndex(keys, key) ==
    IF \E i \in DOMAIN keys : keys[i] = key
    THEN CHOOSE i \in DOMAIN keys : keys[i] = key
    ELSE 0

RECURSIVE ResponsesCompare(_, _, _)
RECURSIVE DictValues(_, _, _, _)
RECURSIVE ListItems(_, _, _, _)

\* the loop of _compare_dict_response over the first k expected keys
DictValues(user_response, expected_response, allowed_variation, k) ==
    IF k = 0
    THEN [raised |-> FALSE, keys_matched |-> 0, values_matched |-> Zero, issues |-> <<>>]
    ELSE LET acc == DictValues(user_response, expected_response, allowed_variation, k - 1)
             at == KeyIndex(user_response.keys, expected_response.keys[k])
         IN  IF acc.raised \/ at = 0 THEN acc
             ELSE LET value == ResponsesCompare(user_response.items[at],
                                                expected_response.items[k],
                                                allowed_variation)
                  IN  IF value.raised THEN [acc EXCEPT !.raised = TRUE]
                      ELSE [raised |-> FALSE,
                            keys_matched |-> acc.keys_matched + 1,
                            values_matched |-> RAdd(acc.values_matched, value.score),
                            issues |-> acc.issues \o value.issues]

\* _compare_dict_response: 0.4 * key coverage + 0.6 * value quality
DictResponseCompare(user_response, expected_response, allowed_variation) ==
    IF user_response.t # "dict" THEN Scored(Zero, <<"type_error">>)
    ELSE LET total_keys == Len(expected_response.keys)
             loop == DictValues(user_response, expected_response,
                                allowed_variation, total_keys)
             quality_score ==
                 IF total_keys > 0
                 THEN Frac(4 * loop.keys_matched * loop.values_matched[2]
                             + 6 * loop.values_matched[1],
                           10 * total_keys * loop.values_matched[2])
                 ELSE Zero
             missing_keys == \E i \in DOMAIN expected_response.keys :
                                KeyIndex(user_response.keys, expected_response.keys[i]) = 0
         IN  IF loop.raised THEN Raised
             ELSE Scored(quality_score,
                         loop.issues \o (IF RLess(quality_score, One) /\ missing_keys
                                         THEN <<"missing_keys">> ELSE <<>>))

\* the positional loop of _compare_list_response over the first k items
ListItems(user_response, expected_response, allowed_variation, k) ==
    IF k = 0
    THEN [raised |-> FALSE, matched_quality |-> Zero, issues |-> <<>>]
    ELSE LET acc == ListItems(user_response, expected_response, allowed_variation, k - 1)
         IN  IF acc.raised \/ k > Len(user_response.items) THEN acc
             ELSE LET item == ResponsesCompare(user_response.items[k],
                                               expected_response.items[k],
                                               allowed_variation)
                  IN  IF item.raised THEN [acc EXCEPT !.raised = TRUE]
                      ELSE [raised |-> FALSE,
                            matched_quality |-> RAdd(acc.matched_quality, item.score),
                            issues |-> acc.issues \o item.issues]

\* _compare_list_response
ListResponseCompare(user_response, expected_response, allowed_variation) ==
    IF user_response.t # "list" THEN Scored(Zero, <<"type_error">>)
    ELSE IF expected_response.items = <<>>
    THEN Scored(IF user_response.items = <<>> THEN One ELSE Zero, <<>>)
    ELSE LET length == IF Len(user_response.items) # Len(expected_response.items)
                       THEN <<"length_mismatch">> ELSE <<>>
         IN  IF \A i \in DOMAIN expected_response.items :
                    IsSimple(expected_response.items[i])
             THEN LET r == SimpleListsCompare(user_response.items,
                                              expected_response.items)
                  IN  Scored(r.score, length \o r.issues)
             ELSE LET total_items == Len(expected_response.items)
                      loop == ListItems(user_response, expected_response,
                                        allowed_variation, total_items)
                  IN  IF loop.raised THEN Raised
                      ELSE Scored(Frac(loop.matched_quality[1],
                                       loop.matched_quality[2] * total_items),
                                  length \o loop.issues)

\* _compare_responses
ResponsesCompare(user_response, expected_response, allowed_variation) ==
    IF IsSimple(expected_response)
    THEN SimpleResponseCompare(user_response, expected_response, allowed_variation)
    ELSE IF expected_response.t = "dict"
    THEN DictResponseCompare(user_response, expected_response, allowed_variation)
    ELSE ListResponseCompare(user_response, expected_response, allowed_variation)

\* The values the comparison is evaluated on
Scalars ==
    { Num(0), Num(10), Num(12), Bool(TRUE), Bool(FALSE),
      Str(""), Str("cat"), Str("Cat"), Str("quick brown foxes jumped"),
      Str("the quick and the brown"), Str("the and are for was not") }

Lists ==
    { List(<<>>), List(<<Num(10)>>), List(<<Num(10), Str("cat")>>),
      List(<<Str("cat"), Num(10)>>), List(<<Bool(TRUE), Num(0)>>),
      List(<<List(<<>>)>>), List(<<Dict(<<>>, <<>>)>>),
      List(<<Num(10), List(<<Num(12)>>)>>) }

Dicts ==
    { Dict(<<>>, <<>>), Dict(<<"a">>, <<Num(10)>>), Dict(<<"a">>, <<Num(12)>>),
      Dict(<<"b">>, <<Num(0)>>), Dict(<<"a">>, <<Str("cat")>>),
      Dict(<<"a", "b">>, <<Str("cat"), List(<<Num(10)>>)>>),
      Dict(<<"b", "a">>, <<List(<<Num(10)>>), Str("cat")>>),
      Dict(<<"a">>, <<Dict(<<>>, <<>>)>>) }

JsonValues == Scalars \cup Lists \cup Dicts

\* allowed_variation: 0.0 (the column default), 0.1 and 1.0
AllowedVariations == {0, 10, 100}

InitSimilarity ==
    /\ settings = DefaultSettings
    /\ sessionScope = "request"
    /\ validations = <<>>
    /\ groups = <<>>
    /\ pc = [w \in Workers |-> "idle"]
    /\ cur = [w \in Workers |-> NoLocals]
    /\ probe \in [kind : {"similarity"},
                  user_response : JsonValues,
                  expected_response : JsonValues,
                  allowed_variation : AllowedVariations,
                  done : {FALSE},
                  out : {Scored(Zero, <<>>)}]

\* GoldenSetValidator.validate, line 52
EvalCompareResponses ==
    /\ probe.kind = "similarity"
    /\ ~probe.done
    /\ probe' = [probe EXCEPT
          !.done = TRUE,
          !.out = ResponsesCompare(probe.user_response, probe.expected_response,
                                   probe.allowed_variation)]
    /\ UNCHANGED <<settings, sessionScope, validations, groups, pc, cur>>

NextSimilarity == EvalCompareResponses

SpecSimilarity == InitSimilarity /\ [][NextSimilarity]_vars

\* C19: a response compared with an identical expected response scores
\* 1.0, for every scalar, sequence and record, the empty ones and nested
\* ones included, and every allowed variation.
C19_SimilarityReflexive ==
    (/\ probe.kind = "similarity"
     /\ probe.done
     /\ probe.user_response = probe.expected_response)
    => (~probe.out.raised /\ probe.out.score = One)

\* C20: every comparison returns a score between 0 and 1 and none raises;
\* a response whose shape differs from the expected one scores 0.0 with a
\* type issue.
C20_SimilarityTotalAndBounded ==
    (probe.kind = "similarity" /\ probe.done) =>
        /\ ~probe.out.raised
        /\ ~RLess(One, probe.out.score)
        /\ probe.out.score[1] >= 0 /\ probe.out.score[2] > 0
        /\ probe.user_response.t # probe.expected_response.t =>
              /\ probe.out.score = Zero
              /\ \E i \in DOMAIN probe.out.issues : probe.out.issues[i] = "type_error"

\* C21: for two records the score is 0.4 * key coverage + 0.6 * the mean
\* similarity over the expected keys the candidate has; a key the
\* candidate lacks lowers the coverage only and is left out of the mean.
C21_MissingKeysExcludedFromValueTerm ==
    (/\ probe.kind = "similarity"
     /\ probe.done
     /\ probe.user_response.t = "dict"
     /\ probe.expected_response.t = "dict"
     /\ probe.expected_response.keys # <<>>
     /\ ~probe.out.raised)
    => LET total_keys == Len(probe.expected_response.keys)
           loop == DictValues(probe.user_response, probe.expected_response,
                              probe.allowed_variation, total_keys)
           present == loop.keys_matched
           mean == IF present = 0 THEN Zero
                   ELSE Frac(loop.values_matched[1],
                             loop.values_matched[2] * present)
       IN  probe.out.score =
               Frac(4 * present * mean[2] + 6 * total_keys * mean[1],
                    10 * total_keys * mean[2])

----------------------------------------------------------------------------
(* GoldenSetValidator.validate on a golden set row, and the use            *)
(* _perform_validation makes of its output.  Task t2 has a row whose       *)
(* expected_response and allowed_variation columns are drawn by the        *)
(* model, task t1 has none; hints is the column default, the empty list.   *)

\* _generate_feedback with no hints
GenerateFeedback(quality_score, issues) ==
    LET has(type) == \E i \in DOMAIN issues : issues[i] = type
    IN  IF ~RLess(quality_score, <<95, 100>>) THEN "excellent"
        ELSE IF ~RLess(quality_score, <<8, 10>>) THEN "good"
        ELSE IF has("type_error") THEN "wrong_format"
        ELSE IF has("missing_keys") THEN "missing_information"
        ELSE IF has("partial_match") THEN "partially_correct"
        ELSE IF has("mismatch") THEN "no_match"
        ELSE "needs_improvement"

\* GoldenSetValidator.validate; golden_set is the set get_by_task_id finds
GoldenSetValidateOn(golden_set, response) ==
    IF golden_set = {}
    THEN [raised |-> FALSE, quality_score |-> Zero, confidence |-> 0,
          issues |-> <<"error">>, feedback |-> ""]
    ELSE LET row == CHOOSE g \in golden_set : TRUE
             compared == ResponsesCompare(response, row.expected_response,
                                          row.allowed_variation)
         IN  IF compared.raised
             THEN [raised |-> TRUE, quality_score |-> Zero, confidence |-> 0,
                   issues |-> <<>>, feedback |-> ""]
             ELSE [raised |-> FALSE, quality_score |-> compared.score,
                   confidence |-> GoldenConfidence,
                   issues |-> compared.issues,
                   feedback |-> GenerateFeedback(compared.score, compared.issues)]

\* a score as a whole percent, rounded down
Percent(score) == (100 * score[1]) \div score[2]

GoldenExpected ==
    { Str("cat"), Num(10), Bool(TRUE), Dict(<<>>, <<>>),
      Dict(<<"a", "b">>, <<Str("cat"), List(<<Num(10)>>)>>),
      List(<<Num(10), Str("cat")>>) }

GoldenMethods == {NoMethod, "golden_set", "consensus"}

\* the outputs of the other three strategies
OtherOutputs(name) ==
    { NoOutput,
      [quality_score |-> 100, confidence |-> 100, issues |-> <<>>, feedback |-> name] }

NoVerdict == [raised |-> FALSE, quality_score |-> 0, confidence |-> 0, issues |-> <<>>, feedback |-> "", status |-> "pending"]

InitGolden ==
    /\ settings = DefaultSettings
    /\ sessionScope = "request"
    /\ validations = <<>>
    /\ groups = <<>>
    /\ pc = [w \in Workers |-> "idle"]
    /\ cur = [w \in Workers |-> NoLocals]
    /\ probe \in [kind : {"golden"},
                  task_id : {"t1", "t2"},
                  expected_response : GoldenExpected,
                  allowed_variation : AllowedVariations,
                  validation_type : GoldenMethods,
                  response : JsonValues,
                  threshold : OtherOutputs("threshold"),
                  bot : OtherOutputs("bot"),
                  statistical : OtherOutputs("statistical"),
                  done : {FALSE},
                  golden : {GoldenSetValidateOn({}, Num(0))},
                  out : {NoVerdict}]
    \* a task without a row has no columns: the draw is kept to one value
    /\ probe.task_id = "t1" =>
          /\ probe.expected_response = Dict(<<>>, <<>>)
          /\ probe.allowed_variation = 0

\* the golden set of the probed task
ProbeGoldenSet ==
    IF GoldenGetByTaskId(probe.task_id) = {} THEN {}
    ELSE {[expected_response |-> probe.expected_response,
           allowed_variation |-> probe.allowed_variation]}

\* validate_submission lines 47-48 and 65-85: the method, the strategies,
\* and the status of the result
EvalGolden ==
    /\ probe.kind = "golden"
    /\ ~probe.done
    /\ LET golden_result == GoldenSetValidateOn(ProbeGoldenSet, probe.response)
           validation_method ==
               DetermineValidationMethod(probe.task_id, probe.validation_type)
           \* the golden strategy runs for its own method, and in the
           \* fusion branch when the task has a golden set
           called == \/ validation_method = "golden_set"
                     \/ /\ validation_method \notin
                             {"bot_detection", "statistical", "threshold"}
                        /\ ProbeGoldenSet # {}
           result == PerformValidationOn(validation_method, probe.task_id,
                        [quality_score |-> Percent(golden_result.quality_score),
                         confidence |-> golden_result.confidence,
                         issues |-> golden_result.issues,
                         feedback |-> golden_result.feedback],
                        probe.threshold, probe.bot, probe.statistical)
       IN  probe' = [probe EXCEPT
              !.done = TRUE,
              !.golden = golden_result,
              !.out = IF called /\ golden_result.raised
                      THEN [NoVerdict EXCEPT !.raised = TRUE]
                      ELSE [raised |-> FALSE,
                            quality_score |-> result.quality_score,
                            confidence |-> result.confidence,
                            issues |-> result.issues,
                            feedback |-> result.feedback,
                            status |-> DetermineStatus(settings,
                                          result.quality_score,
                                          result.confidence)]]
    /\ UNCHANGED <<settings, sessionScope, validations, groups, pc, cur>>

NextGolden == EvalGolden

SpecGolden == InitGolden /\ [][NextGolden]_vars

\* C22: with a golden example the golden strategy returns confidence 1.0
\* whatever the response; with none it returns quality 0, confidence 0 and
\* a 'no golden set' issue, and that result is left out of the fusion and
\* never makes the submission rejected.
C22_GoldenConfidenceOrInapplicable ==
    (probe.kind = "golden" /\ probe.done) =>
        /\ ProbeGoldenSet # {} =>
              ~probe.golden.raised /\ probe.golden.confidence = 100
        /\ ProbeGoldenSet = {} =>
              /\ ~probe.golden.raised
              /\ probe.golden.quality_score = Zero
              /\ probe.golden.confidence = 0
              /\ probe.golden.issues = <<"error">>
              /\ ~probe.out.raised
              /\ probe.out.status # "rejected"
              /\ probe.validation_type = "consensus" =>
                    /\ probe.out.quality_score =
                          FuseThree(probe.threshold, probe.bot,
                                    probe.statistical).quality_score
                    /\ probe.out.issues =
                          FuseThree(probe.threshold, probe.bot,
                                    probe.statistical).issues

----------------------------------------------------------------------------
(* BotDetector.  A stored validation of the session is a record of its    *)
(* response and its time_spent_ms column, <<>> for NULL; the history of a  *)
(* session is ordered newest first, as get_recent_by_session orders it.    *)

BotHistoryLimit == 5

\* min_expected_times.get(task_type, min_expected_times["default"])
MinExpectedTimes(task_type) ==
    CASE task_type = "vqa" -> 2000
      [] task_type = "text_classification" -> 1500
      [] task_type = "multiple_choice" -> 1000
      [] task_type = "open_text" -> 3000
      [] OTHER -> 1500

\* A ramp of 1 - t / min, which falls to 0 instead of 0.5
CheckResponseTimeSteep(time_spent_ms, task_type) ==
    LET min_time == MinExpectedTimes(task_type)
    IN  IF time_spent_ms <= 0 THEN One
        ELSE IF 2 * time_spent_ms < min_time THEN One
        ELSE IF time_spent_ms < min_time
        THEN Frac(min_time - time_spent_ms, min_time)
        ELSE Zero

\* _check_response_time; 0.5 + 0.5 * (1 - t / min) is (2 min - t) / (2 min)
CheckResponseTime(time_spent_ms, task_type) ==
    LET min_time == MinExpectedTimes(task_type)
    IN  IF time_spent_ms <= 0 THEN One
        ELSE IF 2 * time_spent_ms < min_time THEN One
        ELSE IF time_spent_ms < min_time
        THEN Frac(2 * min_time - time_spent_ms, 2 * min_time)
        ELSE Zero

\* query ... order_by(created_at.desc()).limit(limit).all()
GetRecentBySession(history, limit) ==
    SubSeq(history, 1, Min(limit, Len(history)))

\* _responses_equal
ResponsesEqual(response1, response2) ==
    IF response1.t = "str" /\ response2.t = "str"
    THEN Normalise(response1.s) = Normalise(response2.s)
    ELSE PyEq(response1, response2)

RECURSIVE SumSeq(_)
SumSeq(seq) == IF seq = <<>> THEN 0 ELSE Head(seq) + SumSeq(Tail(seq))

\* _detect_time_pattern.  With n samples of sum s and sum of squares q the
\* sample variance is (n q - s^2) / (n (n - 1)), so stdev / mean < c is
\* n (n q - s^2) < c^2 (n - 1) s^2.
DetectTimePattern(times) ==
    LET n == Len(times)
        s == SumSeq(times)
        q == SumSeq([i \in DOMAIN times |-> times[i] * times[i]])
        spread == n * (n * q - s * s)
    IN  IF n < 3 THEN Zero
        ELSE IF spread = 0 THEN One
        ELSE IF s <= 0 THEN Zero
        ELSE IF 100 * spread < (n - 1) * s * s THEN <<9, 10>>
        ELSE IF 25 * spread < (n - 1) * s * s THEN <<7, 10>>
        ELSE Zero

\* the time_spent_ms of the validations that have one
ResponseTimes(recent_validations) ==
    LET with == SelectSeq(recent_validations, LAMBDA v : v.time_spent_ms # <<>>)
    IN  [i \in DOMAIN with |-> with[i].time_spent_ms[1]]

\* _check_pattern_repetition
CheckPatternRepetition(history, current_response) ==
    LET recent_validations == GetRecentBySession(history, BotHistoryLimit)
        response_times == ResponseTimes(recent_validations)
        time_pattern_score == DetectTimePattern(response_times)
    IN  IF Len(recent_validations) < 2 THEN Zero
        ELSE IF \E i \in DOMAIN recent_validations :
                   ResponsesEqual(current_response, recent_validations[i].response)
        THEN One
        ELSE IF Len(response_times) >= 3 /\ RLess(<<8, 10>>, time_pattern_score)
        THEN time_pattern_score
        ELSE Zero

\* _detect_keyboard_mashing on the modelled texts: blank text, one
\* character five times, anything else
DetectKeyboardMashing(text) ==
    CASE text = "" -> One
      [] text = "aaaaa" -> <<8, 10>>
      [] OTHER -> Zero

\* _check_random_clicking
CheckRandomClicking(response) ==
    IF response.t = "str" THEN DetectKeyboardMashing(response.s) ELSE Zero

\* weight / 10 * score
Weighted(weight, score) == Frac(weight * score[1], 10 * score[2])

\* BotDetector.validate
BotValidate(history, response, time_spent_ms, task_type) ==
    LET time_suspicion == CheckResponseTime(time_spent_ms, task_type)
        pattern_suspicion == CheckPatternRepetition(history, response)
        random_suspicion == CheckRandomClicking(response)
        suspicion_score == RAdd(RAdd(Weighted(4, time_suspicion),
                                     Weighted(3, pattern_suspicion)),
                                Weighted(3, random_suspicion))
        high(x) == RLess(<<8, 10>>, x)
    IN  [time_suspicion |-> time_suspicion,
         pattern_suspicion |-> pattern_suspicion,
         random_suspicion |-> random_suspicion,
         quality_score |-> Frac(suspicion_score[2] - suspicion_score[1],
                                suspicion_score[2]),
         confidence |-> IF 2 * suspicion_score[1] >= suspicion_score[2]
                        THEN suspicion_score
                        ELSE Frac(suspicion_score[2] - suspicion_score[1],
                                  suspicion_score[2]),
         issues |-> (IF high(time_suspicion)
                     THEN <<"suspiciously_fast_response">> ELSE <<>>)
                    \o (IF high(pattern_suspicion)
                        THEN <<"repetitive_pattern">> ELSE <<>>)
                    \o (IF high(random_suspicion)
                        THEN <<"random_clicking">> ELSE <<>>),
         feedback |-> IF high(suspicion_score) THEN "automated" ELSE ""]

Stored(response, time) == [response |-> response, time_spent_ms |-> time]

\* the stored validations a session's history is made of
StoredValidations ==
    { Stored(Str("cat"), <<100>>), Stored(Str("dog"), <<100>>),
      Stored(Str("dog"), <<105>>), Stored(Str("dog"), <<130>>),
      Stored(Str("dog"), <<200>>),
      Stored(Dict(<<"a">>, <<Str("cat")>>), <<>>) }

MaxHistory == 3

\* every history of up to MaxHistory validations, and two of six whose
\* oldest validation lies beyond the limit of the query
Histories ==
    UNION { [1..n -> StoredValidations] : n \in 0..MaxHistory }
      \cup { [i \in 1..6 |-> IF i = 6 THEN Stored(Str("cat"), <<100>>)
                             ELSE Stored(Str("dog"), <<100 * i>>)],
             [i \in 1..6 |-> IF i = 6 THEN Stored(Str("cat"), <<100>>)
                             ELSE Stored(Str("dog"), <<>>)] }

BotResponses ==
    { Str("Cat "), Str("bird"), Str(""), Str("aaaaa"),
      Dict(<<"a">>, <<Str("cat")>>) }

ElapsedTimes == {-500, 0, 400, 499, 500, 750, 999, 1000, 1499, 1500, 3000}

BotTaskTypes == {"multiple_choice", "vqa", "image_labeling"}

InitBot ==
    /\ settings = DefaultSettings
    /\ sessionScope = "request"
    /\ validations = <<>>
    /\ groups = <<>>
    /\ pc = [w \in Workers |-> "idle"]
    /\ cur = [w \in Workers |-> NoLocals]
    /\ probe \in [kind : {"bot"},
                  history : Histories,
                  response : BotResponses,
                  time_spent_ms : ElapsedTimes,
                  task_type : BotTaskTypes,
                  done : {FALSE},
                  out : {BotValidate(<<>>, Num(0), 3000, "vqa")}]

\* _perform_validation, line 125
EvalBotValidate ==
    /\ probe.kind = "bot"
    /\ ~probe.done
    /\ probe' = [probe EXCEPT
          !.done = TRUE,
          !.out = BotValidate(probe.history, probe.response,
                              probe.time_spent_ms, probe.task_type)]
    /\ UNCHANGED <<settings, sessionScope, validations, groups, pc, cur>>

NextBot == EvalBotValidate

SpecBot == InitBot /\ [][NextBot]_vars

\* C23: the pattern suspicion over the session's 5 most recent validations
\* is 1.0 when the current response equals one of them, a single one
\* included; otherwise, with 3 or more time samples, it is 0.9 for a
\* coefficient of variation below 0.1, 0.7 below 0.2 and 0.0 above; and
\* 0.0 with fewer samples.
C23_PatternSuspicionTable ==
    (probe.kind = "bot" /\ probe.done) =>
        LET prior == GetRecentBySession(probe.history, BotHistoryLimit)
            times == ResponseTimes(prior)
            n == Len(times)
            s == SumSeq(times)
            q == SumSeq([i \in DOMAIN times |-> times[i] * times[i]])
            spread == n * (n * q - s * s)
        IN  probe.out.pattern_suspicion =
               IF \E i \in DOMAIN prior :
                     ResponsesEqual(probe.response, prior[i].response)
               THEN One
               ELSE IF n >= 3 /\ 100 * spread < (n - 1) * s * s THEN <<9, 10>>
               ELSE IF n >= 3 /\ 25 * spread < (n - 1) * s * s THEN <<7, 10>>
               ELSE Zero

\* C24: the time suspicion is 1.0 for an elapsed time of 0 or less and
\* for one below half the task type's minimum, 0.5 + 0.5 * (1 - elapsed /
\* min) from half the minimum up to the minimum, and 0.0 from the minimum
\* on; it lies in [0,1] and no longer elapsed time has a higher one.
C24_TimeSuspicionRamp ==
    (probe.kind = "bot" /\ probe.done) =>
        LET min_time == MinExpectedTimes(probe.task_type)
            elapsed == probe.time_spent_ms
            suspicion == probe.out.time_suspicion
        IN  /\ elapsed <= 0 => suspicion = One
            /\ 2 * elapsed < min_time => suspicion = One
            /\ (2 * elapsed >= min_time /\ elapsed < min_time) =>
                  suspicion = RAdd(<<1, 2>>,
                                   Frac(min_time - elapsed, 2 * min_time))
            /\ elapsed >= min_time => suspicion = Zero
            /\ suspicion[1] >= 0 /\ suspicion[2] > 0
            /\ ~RLess(One, suspicion)
            /\ \A later \in ElapsedTimes :
                  later >= elapsed =>
                     ~RLess(suspicion, CheckResponseTime(later, probe.task_type))

\* a submission on the ramp, and the invalid time of 0 scored as 1.0
C24_Witness ==
    /\ probe.kind = "bot"
    /\ probe.done
    /\ probe.task_type = "multiple_choice"
    /\ probe.time_spent_ms = 750
    /\ probe.out.time_suspicion = <<5, 8>>

----------------------------------------------------------------------------
(* StatisticalValidator.  The baseline is a sequence of stored validations *)
(* as above; scores are percents.                                          *)

StatisticalWindowDays == 7

Result(quality_score, confidence, issues) ==
    [quality_score |-> quality_score, confidence |-> confidence, issues |-> issues]

\* The largest k in 0..3 with abs(z_score) > k, for the z-score of x among
\* n samples of sum s and sum of squares q.  The deviation is the sample
\* standard deviation, or half the mean for a single sample; when it is
\* not positive the z-score is 0 for x equal to the mean and infinite
\* otherwise.
ZBand(n, s, q, x) ==
    LET d == n * q - s * s
        Beyond(k) ==
            IF n = 1
            THEN IF s > 0 THEN 2 * Abs(x - s) > k * s ELSE x # s
            ELSE IF d > 0
                 THEN (n - 1) * (n * x - s) * (n * x - s) > k * k * n * d
                 ELSE n * x # s
    IN  IF Beyond(3) THEN 3
        ELSE IF Beyond(2) THEN 2
        ELSE IF Beyond(1) THEN 1
        ELSE 0

Squares(seq) == [i \in DOMAIN seq |-> seq[i] * seq[i]]

\* _analyze_response_time
AnalyzeResponseTime(time_spent_ms, similar_validations) ==
    LET response_times == ResponseTimes(similar_validations)
        band == ZBand(Len(response_times), SumSeq(response_times),
                      SumSeq(Squares(response_times)), time_spent_ms)
    IN  IF response_times = <<>> THEN Result(50, 30, <<>>)
        ELSE IF band = 3 THEN Result(30, 80, <<"unusual_response_time">>)
        ELSE IF band = 2 THEN Result(50, 70, <<>>)
        ELSE IF band = 1 THEN Result(70, 60, <<>>)
        ELSE Result(90, 80, <<>>)

\* _analyze_multiple_choice
AnalyzeMultipleChoice(response, similar_validations) ==
    LET previous_responses ==
            SelectSeq(similar_validations, LAMBDA v : v.response.t = "str")
        total_responses == Len(previous_responses)
        count == Cardinality({i \in DOMAIN previous_responses :
                                 previous_responses[i].response.s = response.s})
    IN  IF total_responses = 0 THEN Result(50, 30, <<>>)
        ELSE IF count = 0 THEN Result(40, 60, <<"unusual_response">>)
        ELSE IF 10 * count < total_responses THEN Result(60, 70, <<>>)
        ELSE Result(80, 80, <<>>)

\* _analyze_content, _analyze_open_text
AnalyzeContent(response, similar_validations, task_type) ==
    IF task_type = "multiple_choice" /\ response.t = "str"
    THEN AnalyzeMultipleChoice(response, similar_validations)
    ELSE Result(70, 50, <<>>)

\* _check_for_outliers
CheckForOutliers(response, similar_validations) ==
    LET strs == SelectSeq(similar_validations, LAMBDA v : v.response.t = "str")
        response_lengths == [i \in DOMAIN strs |-> StrLen(strs[i].response.s)]
        band == ZBand(Len(response_lengths), SumSeq(response_lengths),
                      SumSeq(Squares(response_lengths)), StrLen(response.s))
    IN  IF response.t = "str" /\ response_lengths # <<>>
        THEN IF band = 3 THEN Result(40, 70, <<"unusual_response_length">>)
             ELSE IF band = 2 THEN Result(60, 60, <<>>)
             ELSE Result(80, 70, <<>>)
        ELSE Result(70, 40, <<>>)

\* StatisticalValidator.validate, on the validations of the publisher and
\* task type found in the window
StatisticalValidate(similar_validations, response, time_spent_ms, task_type) ==
    LET time_quality == AnalyzeResponseTime(time_spent_ms, similar_validations)
        content_quality == AnalyzeContent(response, similar_validations, task_type)
        outlier_analysis == CheckForOutliers(response, similar_validations)
        issues == time_quality.issues \o content_quality.issues
                    \o outlier_analysis.issues
    IN  IF similar_validations = <<>>
        THEN [quality_score |-> 50, confidence |-> 30, issues |-> <<>>,
              feedback |-> ""]
        ELSE [quality_score |->
                  (3 * time_quality.quality_score
                     + 5 * content_quality.quality_score
                     + 2 * outlier_analysis.quality_score) \div 10,
              confidence |->
                  (3 * time_quality.confidence + 5 * content_quality.confidence
                     + 2 * outlier_analysis.confidence) \div 10,
              issues |-> issues,
              feedback |-> IF issues # <<>> THEN "differs" ELSE ""]

----------------------------------------------------------------------------
(* validate_submission with the strategies that read the validations       *)
(* table: the record of the submission is inserted and committed (lines    *)
(* 50-62) before the strategy runs (lines 65-73).  Requests are served one *)
(* at a time by worker w1.  A stored validation carries its session, its   *)
(* publisher and its age in days, which stands for created_at.             *)

\* the JSON value of a response
AsJson(response) ==
    IF response.shape = "text" THEN Str(response.text)
    ELSE IF response.cls = "" THEN Dict(<<>>, <<>>)
    ELSE Dict(<<"class">>, <<Str(response.cls)>>)

\* task, session, publisher and task type of the requests
Callers ==
    { [task_id |-> "t1", session_id |-> "s1", publisher_id |-> "p1",
       task_type |-> "multiple_choice"],
      [task_id |-> "t1", session_id |-> "s2", publisher_id |-> "p2",
       task_type |-> "multiple_choice"],
      [task_id |-> "t1", session_id |-> "s1", publisher_id |-> "p1",
       task_type |-> "open_text"],
      [task_id |-> "t2", session_id |-> "s1", publisher_id |-> "p1",
       task_type |-> "multiple_choice"] }

\* response and time_spent_ms of the requests
Answers ==
    { [response |-> Txt("cat"), time_spent_ms |-> 100],
      [response |-> Txt("dog"), time_spent_ms |-> 1000] }

SessionMethods == {NoMethod, "bot_detection", "statistical"}

MaxSubmissions == 2

InitSession ==
    /\ settings = DefaultSettings
    /\ sessionScope = "request"
    /\ validations = <<>>
    /\ groups = <<>>
    /\ pc = [w \in Workers |-> "idle"]
    /\ cur = [w \in Workers |-> NoLocals]
    /\ probe = NoProbe

\* validate_submission, lines 39-62
SessionSubmit(caller, answer, validation_type) ==
    /\ Dispatch("w1")
    /\ Len(validations) < MaxSubmissions
    /\ validations' = Append(validations,
          [task_id |-> caller.task_id,
           response |-> answer.response,
           time_spent_ms |-> answer.time_spent_ms,
           task_type |-> caller.task_type,
           validation_method |->
               DetermineValidationMethod(caller.task_id, validation_type),
           status |-> "pending",
           quality_score |-> 0,
           confidence |-> 0,
           consensus_group_id |-> NoGroup,
           call |-> "running",
           session_id |-> caller.session_id,
           publisher_id |-> caller.publisher_id,
           age |-> 0])
    /\ pc' = [pc EXCEPT !["w1"] = "created"]
    /\ cur' = [cur EXCEPT !["w1"] = [vid |-> Len(validations) + 1, gid |-> NoGroup]]
    /\ probe' = NoProbe
    /\ UNCHANGED <<settings, sessionScope, groups>>

\* the ids in descending order
Newest(ids) == [i \in DOMAIN ids |-> ids[Len(ids) + 1 - i]]

\* get_recent_by_session without the limit: the ids of the session's
\* validations, newest first
SessionIds(session_id) ==
    Newest(SelectSeq(IndexSeq(Len(validations)),
                     LAMBDA i : validations[i].session_id = session_id))

\* get_by_publisher_and_date_range over the last 7 days, and the filter on
\* the task type of statistical_validator.py line 37
SimilarIds(publisher_id, task_type) ==
    SelectSeq(IndexSeq(Len(validations)),
              LAMBDA i : /\ validations[i].publisher_id = publisher_id
                         /\ validations[i].age <= StatisticalWindowDays
                         /\ validations[i].task_type = task_type)

\* the rows of the ids
StoredOf(ids) ==
    [i \in DOMAIN ids |-> Stored(AsJson(validations[ids[i]].response),
                                 <<validations[ids[i]].time_spent_ms>>)]

\* A recording that writes the score into the stored validations
RecordValidationResultStored(table, quality_score, session_id) ==
    [i \in DOMAIN table |-> [table[i] EXCEPT !.quality_score = quality_score]]

\* _record_validation_result: a stub that logs, and leaves the table as it is
RecordValidationResult(table, quality_score, session_id) == table

\* validate_submission, lines 64-92: run the strategy of the method,
\* update the record, route.  probe keeps what the strategy read and
\* returned.
SessionScore ==
    /\ pc["w1"] = "created"
    /\ LET vid == cur["w1"].vid
           v == validations[vid]
           recent == SessionIds(v.session_id)
           similar == SimilarIds(v.publisher_id, v.task_type)
           bot_result == BotValidate(StoredOf(recent), AsJson(v.response),
                                     v.time_spent_ms, v.task_type)
           statistical_result ==
               StatisticalValidate(StoredOf(similar), AsJson(v.response),
                                   v.time_spent_ms, v.task_type)
           r == CASE v.validation_method = "bot_detection" ->
                        [quality_score |-> Percent(bot_result.quality_score),
                         confidence |-> Percent(bot_result.confidence)]
                  [] v.validation_method = "statistical" ->
                        [quality_score |-> statistical_result.quality_score,
                         confidence |-> statistical_result.confidence]
                  [] OTHER ->
                        PerformValidation(v.validation_method, v.task_id,
                                          v.response, v.time_spent_ms,
                                          v.task_type)
           st == DetermineStatus(settings, r.quality_score, r.confidence)
           \* golden_set_validator.py line 61, reached with a golden set
           table == IF /\ v.validation_method = "golden_set"
                       /\ GoldenGetByTaskId(v.task_id) # {}
                    THEN RecordValidationResult(validations, r.quality_score,
                                                v.session_id)
                    ELSE validations
       IN  /\ validations' = [table EXCEPT ![vid] =
                 [v EXCEPT !.quality_score = r.quality_score,
                           !.confidence = r.confidence,
                           !.status = st,
                           !.call = IF NeedsConsensus(st)
                                    THEN "running" ELSE "returned"]]
           /\ probe' =
                 [kind |-> "scored",
                  vid |-> vid,
                  validation_method |-> v.validation_method,
                  read |-> CASE v.validation_method = "bot_detection" ->
                                  GetRecentBySession(recent, BotHistoryLimit)
                             [] v.validation_method = "statistical" -> similar
                             [] OTHER -> <<>>,
                  pattern_suspicion |-> bot_result.pattern_suspicion,
                  statistical |-> statistical_result,
                  quality_score |-> r.quality_score,
                  confidence |-> r.confidence]
           /\ IF NeedsConsensus(st)
              THEN /\ pc' = [pc EXCEPT !["w1"] = "lookup"]
                   /\ cur' = cur
              ELSE /\ pc' = [pc EXCEPT !["w1"] = "idle"]
                   /\ cur' = [cur EXCEPT !["w1"] = NoLocals]
    /\ UNCHANGED <<settings, sessionScope, groups>>

\* eight days pass between two requests: every stored validation leaves
\* the window of the statistical strategy
DaysPass ==
    /\ AllIdle
    /\ \E i \in DOMAIN validations : validations[i].age <= StatisticalWindowDays
    /\ validations' = [i \in DOMAIN validations |->
                          [validations[i] EXCEPT !.age = StatisticalWindowDays + 1]]
    /\ probe' = NoProbe
    /\ UNCHANGED <<settings, sessionScope, groups, pc, cur>>

NextSession ==
    \/ \E caller \in Callers, answer \in Answers, validation_type \in SessionMethods :
          SessionSubmit(caller, answer, validation_type)
    \/ SessionScore
    \/ Lookup("w1")
    \/ CreateGroup("w1")
    \/ AddValidation("w1")
    \/ Check("w1")
    \/ DaysPass

SpecSession == InitSession /\ [][NextSession]_vars

\* C25: a statistical run that finds no earlier validation of the
\* publisher and task type in the window returns quality 0.5 and
\* confidence 0.3 with no issues, the first submission of a publisher and
\* task type included.
C25_NoBaselineIsUninformative ==
    (/\ probe.kind = "scored"
     /\ probe.validation_method = "statistical"
     /\ \A i \in 1..(probe.vid - 1) :
           ~ /\ validations[i].publisher_id = validations[probe.vid].publisher_id
             /\ validations[i].task_type = validations[probe.vid].task_type
             /\ validations[i].age <= StatisticalWindowDays)
    => /\ probe.statistical.quality_score = 50
       /\ probe.statistical.confidence = 30
       /\ probe.statistical.issues = <<>>

----------------------------------------------------------------------------
(* ValidationService.create_validation.  The table holds the validations   *)
(* it stores; a confidence_score is <<>> when the key is absent and <<c>>, *)
(* in percent, when it is given.                                           *)

MaxCreated == 2

CreateTasks == {"t1", "t2"}
Validators == {"v1", "v2"}
ConfidenceScores == {<<>>, <<-10>>, <<0>>, <<90>>, <<100>>, <<150>>}

\* A check of the upper end only
ConfidenceOutOfRangeAbove(confidence_score) ==
    confidence_score # <<>> /\ confidence_score[1] > 100

\* create_validation, lines 274-276
ConfidenceOutOfRange(confidence_score) ==
    confidence_score # <<>>
      /\ (confidence_score[1] < 0 \/ confidence_score[1] > 100)

InitCreate ==
    /\ settings = DefaultSettings
    /\ sessionScope = "request"
    /\ validations = <<>>
    /\ groups = <<>>
    /\ pc = [w \in Workers |-> "idle"]
    /\ cur = [w \in Workers |-> NoLocals]
    /\ probe = NoProbe

\* create_validation: the call ends with ServiceException(400) before
\* anything is added, or adds one row, commits and returns it
CreateValidation(task_id, validator_id, confidence_score) ==
    /\ Len(validations) < MaxCreated
    /\ IF ConfidenceOutOfRange(confidence_score)
       THEN /\ validations' = validations
            /\ probe' = [kind |-> "create",
                         task_id |-> task_id,
                         validator_id |-> validator_id,
                         confidence_score |-> confidence_score,
                         raised |-> "ServiceException",
                         status_code |-> 400,
                         returned |-> 0]
       ELSE /\ validations' = Append(validations,
                  [id |-> Len(validations) + 1,
                   task_id |-> task_id,
                   validator_id |-> validator_id,
                   status |-> "pending",
                   confidence_score |-> confidence_score])
            /\ probe' = [kind |-> "create",
                         task_id |-> task_id,
                         validator_id |-> validator_id,
                         confidence_score |-> confidence_score,
                         raised |-> "",
                         status_code |-> 0,
                         returned |-> Len(validations) + 1]
    /\ UNCHANGED <<settings, sessionScope, groups, pc, cur>>

NextCreate ==
    \E task_id \in CreateTasks, validator_id \in Validators,
       confidence_score \in ConfidenceScores :
          CreateValidation(task_id, validator_id, confidence_score)

SpecCreate == InitCreate /\ [][NextCreate]_vars

----------------------------------------------------------------------------
(* ConsensusService.calculate_agreement_score over a table of validations, *)
(* of which it reads the task id and the status.                           *)

MaxRows == 4

AgreementTasks == {"t1", "t2"}
AgreementStatuses == {"validated", "rejected", "needs_review"}

\* the maximum of a non-empty set of numbers
Max(S) == CHOOSE x \in S : \A y \in S : y <= x

\* The score over the validations of every task
CalculateAgreementScoreAll(task_id) ==
    LET rows == IndexSeq(Len(validations))
        status_counts == [s \in {validations[rows[i]].status : i \in DOMAIN rows} |->
                             Cardinality({i \in DOMAIN rows :
                                             validations[rows[i]].status = s})]
    IN  IF rows = <<>> THEN Zero
        ELSE Frac(Max({status_counts[s] : s \in DOMAIN status_counts}), Len(rows))

\* calculate_agreement_score
CalculateAgreementScore(task_id) ==
    LET rows == SelectSeq(IndexSeq(Len(validations)),
                          LAMBDA i : validations[i].task_id = task_id)
        status_counts == [s \in {validations[rows[i]].status : i \in DOMAIN rows} |->
                             Cardinality({i \in DOMAIN rows :
                                             validations[rows[i]].status = s})]
    IN  IF rows = <<>> THEN Zero
        ELSE Frac(Max({status_counts[s] : s \in DOMAIN status_counts}), Len(rows))

InitAgreement ==
    /\ settings = DefaultSettings
    /\ sessionScope = "request"
    /\ validations \in UNION { [1..n -> [task_id : AgreementTasks,
                                         status : AgreementStatuses]] :
                               n \in 0..MaxRows }
    /\ groups = <<>>
    /\ pc = [w \in Workers |-> "idle"]
    /\ cur = [w \in Workers |-> NoLocals]
    /\ probe = NoProbe

\* a call of calculate_agreement_score; probe is what it returned
EvalAgreementScore(task_id) ==
    /\ probe = NoProbe
    /\ probe' = [kind |-> "agreement", task_id |-> task_id,
                 score |-> CalculateAgreementScore(task_id)]
    /\ UNCHANGED <<settings, sessionScope, validations, groups, pc, cur>>

NextAgreement == \E task_id \in AgreementTasks : EvalAgreementScore(task_id)

SpecAgreement == InitAgreement /\ [][NextAgreement]_vars

\* C27: calculate_agreement_score returns the number of the task's
\* validations with the most common status over the number of the task's
\* validations, a value in (0,1], and 0.0 for a task without validations;
\* the call changes nothing stored.
C27_AgreementScoreIsLargestShare ==
    [][ probe'.kind = "agreement" =>
          LET of_task == {i \in DOMAIN validations :
                             validations[i].task_id = probe'.task_id}
              carrying(s) == Cardinality({i \in of_task : validations[i].status = s})
          IN  /\ validations' = validations
              /\ groups' = groups
              /\ of_task = {} => probe'.score = Zero
              /\ of_task # {} =>
                    /\ \E s \in AgreementStatuses :
                          /\ \A o \in AgreementStatuses : carrying(o) <= carrying(s)
                          /\ probe'.score[1] * Cardinality(of_task)
                                = carrying(s) * probe'.score[2]
                    /\ probe'.score[1] > 0
                    /\ ~RLess(One, probe'.score)
      ]_vars

\* validated, validated, rejected, validated scores 0.75
C27_Witness ==
    /\ probe.kind = "agreement"
    /\ probe.task_id = "t1"
    /\ validations = << [task_id |-> "t1", status |-> "validated"],
                        [task_id |-> "t1", status |-> "validated"],
                        [task_id |-> "t1", status |-> "rejected"],
                        [task_id |-> "t1", status |-> "validated"] >>
    /\ probe.score = <<3, 4>>

\* C28: running the strategies writes nothing: the step of
\* validate_submission that runs them changes no other stored validation
\* and no consensus group (the golden sets are fixed), and of the
\* submission's own record only what the one update writes; the other
\* steps are the insert of the record and the consensus step on it.
C28_StrategiesReadOnly ==
    [][ LET vid == cur["w1"].vid
            others_kept == /\ Len(validations') = Len(validations)
                           /\ \A i \in DOMAIN validations :
                                 i # vid => validations'[i] = validations[i]
        IN  CASE pc["w1"] = "created" ->
                    /\ others_kept
                    /\ groups' = groups
                    /\ [validations'[vid] EXCEPT
                           !.quality_score = validations[vid].quality_score,
                           !.confidence = validations[vid].confidence,
                           !.status = validations[vid].status,
                           !.call = validations[vid].call] = validations[vid]
              [] pc["w1"] = "idle" /\ pc'["w1"] = "created" ->
                    /\ validations' = Append(validations,
                                             validations'[Len(validations')])
                    /\ groups' = groups
              [] pc["w1"] = "idle" /\ pc'["w1"] = "idle" ->
                    /\ groups' = groups
                    /\ Len(validations') = Len(validations)
                    /\ \A i \in DOMAIN validations :
                          [validations'[i] EXCEPT !.age = validations[i].age]
                             = validations[i]
              [] OTHER ->
                    /\ others_kept
                    /\ [validations'[vid] EXCEPT
                           !.consensus_group_id = validations[vid].consensus_group_id,
                           !.call = validations[vid].call] = validations[vid]
      ]_vars

\* the golden strategy has scored the second submission, with the first
\* one stored under another score
C28_Witness ==
    /\ probe.kind = "scored"
    /\ probe.validation_method = "golden_set"
    /\ probe.vid = 2
    /\ validations[1].quality_score # validations[2].quality_score
    /\ validations[1].status # "pending"

----------------------------------------------------------------------------
(* validate_submission for a task without a golden set and a request       *)
(* without a method, over the responses, elapsed times and task types the  *)
(* threshold strategy tells apart.                                         *)

MaxThresholdSubmissions == 2

ThresholdResponses == {Txt("cat"), Txt(""), Dct("7", "str")}
ThresholdTimes == {-500, 0, 900, 2000}
ThresholdTaskTypes == {"multiple_choice", "open_text", "vqa"}

InitThreshold ==
    /\ settings = DefaultSettings
    /\ sessionScope = "request"
    /\ validations = <<>>
    /\ groups = <<>>
    /\ pc = [w \in Workers |-> "idle"]
    /\ cur = [w \in Workers |-> NoLocals]
    /\ probe = NoProbe

ThresholdSubmit(response, time_spent_ms, task_type) ==
    /\ Len(validations) < MaxThresholdSubmissions
    /\ Submit("w1", "t1", response, time_spent_ms, task_type, NoMethod)

NextThreshold ==
    \/ \E response \in ThresholdResponses, time_spent_ms \in ThresholdTimes,
          task_type \in ThresholdTaskTypes :
             ThresholdSubmit(response, time_spent_ms, task_type)
    \/ Score("w1")
    \/ Lookup("w1")
    \/ CreateGroup("w1")
    \/ AddValidation("w1")
    \/ Check("w1")

SpecThreshold == InitThreshold /\ [][NextThreshold]_vars

C30_HistoryExcludesOwnRecord ==
    probe.kind = "scored" =>
        /\ \A k \in DOMAIN probe.read : probe.read[k] < probe.vid
        /\ (/\ probe.validation_method = "bot_detection"
            /\ \A i \in 1..(probe.vid - 1) :
                  validations[i].session_id = validations[probe.vid].session_id
                     => ~ResponsesEqual(AsJson(validations[i].response),
                                        AsJson(validations[probe.vid].response)))
           => probe.pattern_suspicion # One

====
